---- MODULE Spec2Model ----
(***************************************************************************)
(* recon_compare.py: comparison of several reconstruction models.  The     *)
(* script body (lines 43-175) is a sequential pipeline; compute_metrics    *)
(* (lines 19-29) and write_views_png (lines 32-40) are its two functions.  *)
(*                                                                         *)
(* Arrays are abstracted to their extent along the last axis (x): an array *)
(* is a sequence with one abstract content value per index of that axis,   *)
(* so a[i] stands for the sub-volume a[:, :, :, i].  The sensitivity map   *)
(* keeps its full shape (the sequence of its axis lengths) and one         *)
(* abstract content value.                                                 *)
(***************************************************************************)
EXTENDS Integers, Sequences, FiniteSets, TLC

\* ---------------------------------------------------------------- bounds
MaxX == 2          \* largest extent of the last axis of kspace_truth
MaxModels == 2     \* largest number of entries in model_root_dir

\* ------------------------------------------------------ program constants
CanonicalNdim == 5 \* "if sensemap.ndim != 5"
KspaceNdim == 4    \* kspace_truth.shape[0..3]

None == "None"
Contents == {0, 1}                 \* abstract array contents
\* what a callee may do to an array it receives: nothing, or write a value
Scribbles ==
    {[write |-> FALSE, value |-> 0]} \cup [write : {TRUE}, value : Contents]

OutputDir == "out"                 \* args.output_dir
SensemapArgs == {None, "", "maps.npy"}      \* args.sensemap
EntryNames == {"unet", "input", "truth"}    \* names a directory entry can have

Arrays(n) == [1..n -> Contents]

\* the arrays a kspace_truth file of last-axis extent n can hold
TruthFiles(n) == {[j \in 1..n |-> (c + j) % 2] : c \in Contents}

\* the shapes a sensemap file can have: 3, 4, 5 and 6 axes
SensemapShapes ==
    {<<2, 2, 2>>, <<2, 2, 2, 2>>, <<1, 2, 2, 2, 2>>, <<2, 2, 2, 2, 2>>,
     <<1, 1, 2, 2, 2, 2>>}

RECURSIVE SeqSum(_)
SeqSum(s) == IF s = <<>> THEN 0 ELSE Head(s) + SeqSum(Tail(s))

Abs(v) == IF v < 0 THEN -v ELSE v

\* What an in-place write of the callee leaves in an array: the callee either
\* does not write, or overwrites every element with w.value.
Scribble(a, w) == IF w.write THEN [j \in DOMAIN a |-> w.value] ELSE a

\* The caller's array after a call that received `passed`: a copy is a fresh
\* buffer, so the callee's writes reach the caller's array only when the
\* array itself was passed.
AfterCall(isCopy, a, w) == IF isCopy THEN a ELSE Scribble(a, w)

\* os.path.join(dir, name) for a relative name
PathJoin(dir, name) == dir \o "/" \o name

VARIABLES
    args_sensemap,  \* args.sensemap
    pc,             \* position in the script body
    kspace_truth, mask, kspace_input, sensemap,
    image_truth, image_input,
    model_list, idx, model, kspace_output, image_output,
    results,        \* the metrics record of the last comparison
    writes,         \* files written, in order: <<path, k, data>>; k is the
                    \* model's position in model_list, 0 before the loop
    steps,          \* per-model steps taken, in order: <<step, k>>
    jsense_calls,   \* number of JsenseRecon(...).run() calls
    finished,       \* 'Finished' was logged
    max_instances,  \* most DeepRecon instances alive at once
    failed,         \* positions of the models whose setup or run raised
    run_args,       \* the arrays as each model.run call found them
    sensemap_raw,   \* the maps as loaded or estimated, before line 117
    cm_pc, ref, x, cm_in, i, ssim_calls, ssim_total, psnr, nrmse

hist == <<max_instances, failed, run_args, sensemap_raw>>
mainVars == <<args_sensemap, pc, kspace_truth, mask, kspace_input, sensemap,
              image_truth, image_input, model_list, idx, model, kspace_output,
              image_output, writes, steps, jsense_calls, finished, hist>>
cmVars == <<cm_pc, ref, x, cm_in, i, ssim_calls, ssim_total, psnr, nrmse>>
vars == <<mainVars, results, cmVars>>

\* ------------------------------------------------- external collaborators
\* fftc.ifft3c: a fixed one-to-one function of its argument that moves the
\* contents between the indices
Ifft3c(k) == [j \in DOMAIN k |-> (k[Len(k) + 1 - j] + j) % 2]
\* mri.sumofsq(image, axis=0)
Sumofsq(img) == [j \in DOMAIN img |-> img[j] * img[j]]
\* metrics.compute_psnr / compute_nrmse / compute_ssim (scaled integers)
ComputePsnr(a, b) == Cardinality({j \in DOMAIN a : a[j] = b[j]})
ComputeNrmse(a, b) == SeqSum([j \in DOMAIN a |-> Abs(a[j] - b[j])])
ComputeSsim(a, b) == 3 - 2 * Abs(a - b) + a
\* sigpy JsenseRecon(kspace_input, ...).run(): maps of shape (channels, z, y, x)
JsenseRun(k) == [shape |-> [d \in 1..KspaceNdim |-> 2], data |-> SeqSum(k) % 2]
\* DeepRecon(...).run(kspace, sensemap): the reconstructed k-space
ModelRun(name, k, s) == [j \in DOMAIN k |-> (k[j] + s.data + Len(name)) % 2]


\* ------------------------------------------------------------ definitions
\* a test that takes the estimation branch whatever args.sensemap is
SensemapNeverSupplied == FALSE

\* "if args.sensemap:" (line 105): None and the empty string are false
SensemapSupplied == args_sensemap # None /\ args_sensemap # ""

\* the entries os.listdir can return: distinct names, in any order
Listings ==
    {l \in UNION {[1..m -> EntryNames] : m \in 0..MaxModels} :
        \A a, b \in DOMAIN l : a # b => l[a] # l[b]}

\* np.expand_dims(sensemap, axis=-1) on the shape
ExpandDimsLast(shape) == shape \o <<1>>

\* np.expand_dims(sensemap, axis=0) on the shape
ExpandDims(shape) == <<1>> \o shape

\* "if sensemap.ndim != 5: sensemap = np.expand_dims(sensemap, axis=0)"
NormalizeSensemap(s) ==
    IF Len(s.shape) # CanonicalNdim
    THEN [s EXCEPT !.shape = ExpandDims(s.shape)]
    ELSE s

\* write_views_png without its last imwrite
ViewPathsNoAx(filebase) == <<filebase \o "_sag.png", filebase \o "_cor.png">>

\* write_views_png: the three files it writes, in order
ViewPaths(filebase) ==
    <<filebase \o "_sag.png", filebase \o "_cor.png", filebase \o "_ax.png">>

\* write_views_png: np.max of a zero-size array raises ValueError
ViewsRaise(image) == Len(image) = 0

\* file_out of a model (line 158)
KspaceOutPath(name) == PathJoin(OutputDir, "kspace_" \o name \o ".npy")

\* the files at the given paths, written by k from the image
Written(paths, k, image) == [j \in DOMAIN paths |-> <<paths[j], k, image>>]

\* model.run(kspace_input, sensemap): the array itself is passed
KspaceArgShared == FALSE

\* model.run(kspace_input.copy(), sensemap): which argument is a copy
KspaceArgIsCopy == TRUE
SensemapArgIsCopy == FALSE

\* compute_metrics: the arguments of the metric routines are copies
PsnrArgsAreCopies == TRUE
NrmseArgsAreCopies == TRUE
\* compute_ssim(ref[:, :, :, i], x[:, :, :, i]): views of the arguments
SsimArgsAreViews == FALSE
SsimArgsAreCopies == TRUE

\* a loop that stops one index short
SsimCountShort(r) == Len(r) - 1

\* "for i in range(ref.shape[-1])": number of iterations
SsimCount(r) == Len(r)

\* "ssim = ssim_total / ref.shape[-1]": the quotient as a fraction
Mean(total, n) == <<total, n>>

\* a loop body that deletes the model only after saving its output
ModelStepsLateDel ==
    <<"instantiate", "run", "save_output", "del_model", "output_image",
      "output_metrics", "output_views">>

\* the body of the model loop, statement by statement (lines 150-168)
ModelSteps ==
    <<"instantiate", "run", "del_model", "save_output", "output_image",
      "output_metrics", "output_views">>

\* the statement after p in the loop body; after the last one, the loop head
StepAfter(p) ==
    LET j == CHOOSE c \in DOMAIN ModelSteps : ModelSteps[c] = p
    IN  IF j < Len(ModelSteps) THEN ModelSteps[j + 1] ELSE "loop_head"

\* a loop that catches the exception and goes on with the next model
SkipFailedModel == "loop_head"

\* an exception of DeepRecon(...) or model.run(...) is not caught in the loop
AfterModelFailure == "aborted"

NoSensemap == [shape |-> <<>>, data |-> 0]
NoResults == [psnr |-> 0, nrmse |-> 0, ssim |-> <<0, 0>>]

Max(a, b) == IF a >= b THEN a ELSE b

\* DeepRecon instances alive: the one bound to the name model, if any
LiveInstances == IF model = None THEN 0 ELSE 1

\* ---------------------------------------------------------------- Init
cmIdle ==
    /\ cm_pc = "idle" /\ ref = <<>> /\ x = <<>> /\ cm_in = <<>> /\ i = 0
    /\ ssim_calls = <<>> /\ ssim_total = 0 /\ psnr = 0 /\ nrmse = 0

mainStart ==
    /\ kspace_truth = <<>> /\ mask = 0 /\ kspace_input = <<>>
    /\ sensemap = NoSensemap /\ image_truth = <<>> /\ image_input = <<>>
    /\ model_list = <<>> /\ idx = 0 /\ model = None
    /\ kspace_output = <<>> /\ image_output = <<>>
    /\ writes = <<>> /\ steps = <<>> /\ jsense_calls = 0 /\ finished = FALSE
    /\ max_instances = 0 /\ failed = {} /\ run_args = <<>>
    /\ sensemap_raw = NoSensemap

\* the script body after parse_args (line 63)
Init ==
    /\ args_sensemap \in SensemapArgs
    /\ pc = "load_truth"
    /\ mainStart
    /\ results = NoResults
    /\ cmIdle

\* --------------------------------------------- script body, lines 77-142
\* line 78: np.load(args.kspace_truth)
LoadTruth ==
    /\ pc = "load_truth"
    /\ \E n \in 0..MaxX : kspace_truth' \in TruthFiles(n)
    /\ pc' = "make_mask"
    /\ UNCHANGED <<hist, args_sensemap, mask, kspace_input, sensemap, image_truth,
                   image_input, model_list, idx, model, kspace_output,
                   image_output, writes, steps, jsense_calls, finished,
                   results, cmVars>>

\* lines 92-96: the sampling mask and mask.png
MakeMask ==
    /\ pc = "make_mask"
    /\ mask' \in {0, 1}
    /\ writes' = Append(writes, <<PathJoin(OutputDir, "mask.png"), 0, <<mask'>>>>)
    /\ pc' = "apply_mask"
    /\ UNCHANGED <<hist, args_sensemap, kspace_truth, kspace_input, sensemap,
                   image_truth, image_input, model_list, idx, model,
                   kspace_output, image_output, steps, jsense_calls, finished,
                   results, cmVars>>

\* lines 98-103: kspace_input = mask * kspace_truth, and kspace_input.npy
ApplyMask ==
    /\ pc = "apply_mask"
    /\ kspace_input' = [j \in DOMAIN kspace_truth |-> mask * kspace_truth[j]]
    /\ writes' = Append(writes, <<PathJoin(OutputDir, "kspace_input.npy"), 0,
                                 kspace_input'>>)
    /\ pc' = "sensemap"
    /\ UNCHANGED <<hist, args_sensemap, kspace_truth, mask, sensemap, image_truth,
                   image_input, model_list, idx, model, kspace_output,
                   image_output, steps, jsense_calls, finished, results, cmVars>>

\* lines 105-107: the maps are loaded from the file
LoadSensemap ==
    /\ pc = "sensemap"
    /\ SensemapSupplied
    /\ \E sh \in SensemapShapes :
          sensemap' = [shape |-> sh, data |-> Len(sh) % 2]
    /\ sensemap_raw' = sensemap'
    /\ pc' = "expand"
    /\ UNCHANGED <<max_instances, failed, run_args, args_sensemap, kspace_truth, mask, kspace_input,
                   image_truth, image_input, model_list, idx, model,
                   kspace_output, image_output, writes, steps, jsense_calls,
                   finished, results, cmVars>>

\* lines 108-115: the maps are estimated and saved
EstimateSensemap ==
    /\ pc = "sensemap"
    /\ ~SensemapSupplied
    /\ jsense_calls' = jsense_calls + 1
    /\ sensemap' = JsenseRun(kspace_input)
    /\ sensemap_raw' = sensemap'
    /\ writes' = Append(writes, <<PathJoin(OutputDir, "sensemap.npy"), 0,
                                 <<sensemap'.data>>>>)
    /\ pc' = "expand"
    /\ UNCHANGED <<max_instances, failed, run_args, args_sensemap,
                   kspace_truth, mask, kspace_input,
                   image_truth, image_input, model_list, idx, model,
                   kspace_output, image_output, steps, finished, results,
                   cmVars>>

\* lines 117-118
ExpandSensemap ==
    /\ pc = "expand"
    /\ sensemap' = NormalizeSensemap(sensemap)
    /\ pc' = "truth_image"
    /\ UNCHANGED <<hist, args_sensemap, kspace_truth, mask, kspace_input,
                   image_truth, image_input, model_list, idx, model,
                   kspace_output, image_output, writes, steps, jsense_calls,
                   finished, results, cmVars>>

\* line 121
TruthImage ==
    /\ pc = "truth_image"
    /\ image_truth' = Ifft3c(kspace_truth)
    /\ pc' = "truth_views"
    /\ UNCHANGED <<hist, args_sensemap, kspace_truth, mask, kspace_input, sensemap,
                   image_input, model_list, idx, model, kspace_output,
                   image_output, writes, steps, jsense_calls, finished,
                   results, cmVars>>

\* lines 122-123
TruthViews ==
    /\ pc = "truth_views"
    /\ IF ViewsRaise(Sumofsq(image_truth))
       THEN pc' = "aborted" /\ writes' = writes
       ELSE /\ pc' = "input_image"
            /\ writes' = writes \o
                   Written(ViewPaths(PathJoin(OutputDir, "truth")), 0,
                           Sumofsq(image_truth))
    /\ UNCHANGED <<hist, args_sensemap, kspace_truth, mask, kspace_input, sensemap,
                   image_truth, image_input, model_list, idx, model,
                   kspace_output, image_output, steps, jsense_calls, finished,
                   results, cmVars>>

\* line 131
InputImage ==
    /\ pc = "input_image"
    /\ image_input' = Ifft3c(kspace_input)
    /\ pc' = "input_metrics"
    /\ UNCHANGED <<hist, args_sensemap, kspace_truth, mask, kspace_input, sensemap,
                   image_truth, model_list, idx, model, kspace_output,
                   image_output, writes, steps, jsense_calls, finished,
                   results, cmVars>>

\* line 132: compute_metrics(image_truth, image_input) is entered
InputMetricsCall ==
    /\ pc = "input_metrics"
    /\ ref' = image_truth /\ x' = image_input
    /\ cm_in' = <<image_truth, image_input>>
    /\ cm_pc' = "psnr"
    /\ pc' = "input_metrics_wait"
    /\ UNCHANGED <<hist, args_sensemap, kspace_truth, mask, kspace_input, sensemap,
                   image_truth, image_input, model_list, idx, model,
                   kspace_output, image_output, writes, steps, jsense_calls,
                   finished, results, i, ssim_calls, ssim_total, psnr, nrmse>>

\* lines 132-134: compute_metrics returned; its parameters were the caller's
\* arrays themselves
InputMetricsReturn ==
    /\ pc = "input_metrics_wait"
    /\ cm_pc = "ret"
    /\ image_truth' = ref /\ image_input' = x
    /\ cm_pc' = "idle"
    /\ pc' = "input_views"
    /\ UNCHANGED <<hist, args_sensemap, kspace_truth, mask, kspace_input, sensemap,
                   model_list, idx, model, kspace_output, image_output,
                   writes, steps, jsense_calls, finished, results, ref, x,
                   cm_in, i, ssim_calls, ssim_total, psnr, nrmse>>

\* lines 135-136
InputViews ==
    /\ pc = "input_views"
    /\ IF ViewsRaise(Sumofsq(image_input))
       THEN pc' = "aborted" /\ writes' = writes
       ELSE /\ pc' = "del_input"
            /\ writes' = writes \o
                   Written(ViewPaths(PathJoin(OutputDir, "input")), 0,
                           Sumofsq(image_input))
    /\ UNCHANGED <<hist, args_sensemap, kspace_truth, mask, kspace_input, sensemap,
                   image_truth, image_input, model_list, idx, model,
                   kspace_output, image_output, steps, jsense_calls, finished,
                   results, cmVars>>

\* line 142
DelInput ==
    /\ pc = "del_input"
    /\ image_input' = <<>>
    /\ pc' = "listdir"
    /\ UNCHANGED <<hist, args_sensemap, kspace_truth, mask, kspace_input, sensemap,
                   image_truth, model_list, idx, model, kspace_output,
                   image_output, writes, steps, jsense_calls, finished,
                   results, cmVars>>

\* -------------------------------------------- model loop, lines 144-175
\* lines 144-145: os.listdir(args.model_root_dir)
ListModels ==
    /\ pc = "listdir"
    /\ model_list' \in Listings
    /\ idx' = 0
    /\ pc' = "loop_head"
    /\ UNCHANGED <<hist, args_sensemap, kspace_truth, mask, kspace_input, sensemap,
                   image_truth, image_input, model, kspace_output,
                   image_output, writes, steps, jsense_calls, finished,
                   results, cmVars>>

\* line 146: the for statement takes the next entry, or the loop ends
LoopHead ==
    /\ pc = "loop_head"
    /\ IF idx < Len(model_list)
       THEN idx' = idx + 1 /\ pc' = ModelSteps[1]
       ELSE idx' = idx /\ pc' = "finish"
    /\ UNCHANGED <<hist, args_sensemap, kspace_truth, mask, kspace_input, sensemap,
                   image_truth, image_input, model_list, model, kspace_output,
                   image_output, writes, steps, jsense_calls, finished,
                   results, cmVars>>

\* lines 148-151: model = recon_run.DeepRecon(...)
Instantiate ==
    /\ pc = "instantiate"
    /\ model' = model_list[idx]
    /\ max_instances' = Max(max_instances, LiveInstances + 1)
    /\ steps' = Append(steps, <<"instantiate", idx>>)
    /\ pc' = StepAfter("instantiate")
    /\ UNCHANGED <<failed, run_args, sensemap_raw, args_sensemap, kspace_truth, mask, kspace_input, sensemap,
                   image_truth, image_input, model_list, idx, kspace_output,
                   image_output, writes, jsense_calls, finished, results,
                   cmVars>>

\* lines 150-151: DeepRecon(...) raises
InstantiateFails ==
    /\ pc = "instantiate"
    /\ failed' = failed \cup {idx}
    /\ steps' = Append(steps, <<"instantiate", idx>>)
    /\ pc' = AfterModelFailure
    /\ UNCHANGED <<max_instances, run_args, sensemap_raw, args_sensemap, kspace_truth, mask, kspace_input, sensemap,
                   image_truth, image_input, model_list, idx, model,
                   kspace_output, image_output, writes, jsense_calls,
                   finished, results, cmVars>>

\* lines 154-155: model.run(kspace_input.copy(), sensemap); run may write
\* into the arrays it receives
Run ==
    /\ pc = "run"
    /\ kspace_output' = ModelRun(model_list[idx], kspace_input, sensemap)
    /\ \E wk, ws \in Scribbles :
         /\ kspace_input' = AfterCall(KspaceArgIsCopy, kspace_input, wk)
         /\ sensemap' =
              [sensemap EXCEPT
                 !.data = IF SensemapArgIsCopy \/ ~ws.write THEN @ ELSE ws.value]
    /\ run_args' = Append(run_args, [kspace |-> kspace_input,
                                      sensemap |-> sensemap])
    /\ steps' = Append(steps, <<"run", idx>>)
    /\ pc' = StepAfter("run")
    /\ UNCHANGED <<max_instances, failed, sensemap_raw, args_sensemap, kspace_truth, mask, image_truth,
                   image_input, model_list, idx, model, image_output, writes,
                   jsense_calls, finished, results, cmVars>>

\* line 154: model.run(...) raises
RunFails ==
    /\ pc = "run"
    /\ failed' = failed \cup {idx}
    /\ run_args' = Append(run_args, [kspace |-> kspace_input,
                                      sensemap |-> sensemap])
    /\ steps' = Append(steps, <<"run", idx>>)
    /\ pc' = AfterModelFailure
    /\ UNCHANGED <<max_instances, sensemap_raw, args_sensemap, kspace_truth, mask, kspace_input, sensemap,
                   image_truth, image_input, model_list, idx, model,
                   kspace_output, image_output, writes, jsense_calls,
                   finished, results, cmVars>>

\* line 156: del model
DelModel ==
    /\ pc = "del_model"
    /\ model' = None
    /\ steps' = Append(steps, <<"del_model", idx>>)
    /\ pc' = StepAfter("del_model")
    /\ UNCHANGED <<hist, args_sensemap, kspace_truth, mask, kspace_input, sensemap,
                   image_truth, image_input, model_list, idx, kspace_output,
                   image_output, writes, jsense_calls, finished, results,
                   cmVars>>

\* lines 158-160: np.save(file_out, kspace_output)
SaveOutput ==
    /\ pc = "save_output"
    /\ writes' = Append(writes, <<KspaceOutPath(model_list[idx]), idx,
                                 kspace_output>>)
    /\ steps' = Append(steps, <<"save_output", idx>>)
    /\ pc' = StepAfter("save_output")
    /\ UNCHANGED <<hist, args_sensemap, kspace_truth, mask, kspace_input, sensemap,
                   image_truth, image_input, model_list, idx, model,
                   kspace_output, image_output, jsense_calls, finished,
                   results, cmVars>>

\* line 163
OutputImage ==
    /\ pc = "output_image"
    /\ image_output' = Ifft3c(kspace_output)
    /\ steps' = Append(steps, <<"output_image", idx>>)
    /\ pc' = StepAfter("output_image")
    /\ UNCHANGED <<hist, args_sensemap, kspace_truth, mask, kspace_input, sensemap,
                   image_truth, image_input, model_list, idx, model,
                   kspace_output, writes, jsense_calls, finished, results,
                   cmVars>>

\* line 164: compute_metrics(image_truth, image_output) is entered
OutputMetricsCall ==
    /\ pc = "output_metrics"
    /\ ref' = image_truth /\ x' = image_output
    /\ cm_in' = <<image_truth, image_output>>
    /\ cm_pc' = "psnr"
    /\ steps' = Append(steps, <<"output_metrics", idx>>)
    /\ pc' = "output_metrics_wait"
    /\ UNCHANGED <<hist, args_sensemap, kspace_truth, mask, kspace_input, sensemap,
                   image_truth, image_input, model_list, idx, model,
                   kspace_output, image_output, writes, jsense_calls,
                   finished, results, i, ssim_calls, ssim_total, psnr, nrmse>>

\* lines 164-166: compute_metrics returned
OutputMetricsReturn ==
    /\ pc = "output_metrics_wait"
    /\ cm_pc = "ret"
    /\ image_truth' = ref /\ image_output' = x
    /\ cm_pc' = "idle"
    /\ pc' = StepAfter("output_metrics")
    /\ UNCHANGED <<hist, args_sensemap, kspace_truth, mask, kspace_input, sensemap,
                   image_input, model_list, idx, model, kspace_output,
                   writes, steps, jsense_calls, finished, results, ref, x,
                   cm_in, i, ssim_calls, ssim_total, psnr, nrmse>>

\* lines 167-168
OutputViews ==
    /\ pc = "output_views"
    /\ steps' = Append(steps, <<"output_views", idx>>)
    /\ IF ViewsRaise(Sumofsq(image_output))
       THEN pc' = "aborted" /\ writes' = writes
       ELSE /\ pc' = StepAfter("output_views")
            /\ writes' = writes \o
                 Written(ViewPaths(PathJoin(OutputDir, model_list[idx])), idx,
                         Sumofsq(image_output))
    /\ UNCHANGED <<hist, args_sensemap, kspace_truth, mask, kspace_input, sensemap,
                   image_truth, image_input, model_list, idx, model,
                   kspace_output, image_output, jsense_calls, finished,
                   results, cmVars>>

\* line 175
Finish ==
    /\ pc = "finish"
    /\ finished' = TRUE
    /\ pc' = "done"
    /\ UNCHANGED <<hist, args_sensemap, kspace_truth, mask, kspace_input, sensemap,
                   image_truth, image_input, model_list, idx, model,
                   kspace_output, image_output, writes, steps, jsense_calls,
                   results, cmVars>>

\* ------------------------------------------- compute_metrics, lines 19-29
\* line 20
CM_Psnr ==
    /\ cm_pc = "psnr"
    /\ psnr' = ComputePsnr(ref, x)
    /\ \E wa, wb \in Scribbles :
         /\ ref' = AfterCall(PsnrArgsAreCopies, ref, wa)
         /\ x' = AfterCall(PsnrArgsAreCopies, x, wb)
    /\ cm_pc' = "nrmse"
    /\ UNCHANGED <<mainVars, results, cm_in, i, ssim_calls, ssim_total, nrmse>>

\* lines 21-23
CM_Nrmse ==
    /\ cm_pc = "nrmse"
    /\ nrmse' = ComputeNrmse(ref, x)
    /\ \E wa, wb \in Scribbles :
         /\ ref' = AfterCall(NrmseArgsAreCopies, ref, wa)
         /\ x' = AfterCall(NrmseArgsAreCopies, x, wb)
    /\ ssim_total' = 0
    /\ i' = 0
    /\ ssim_calls' = <<>>
    /\ cm_pc' = "ssim_loop"
    /\ UNCHANGED <<mainVars, results, cm_in, psnr>>

\* lines 24-27: one iteration; here i counts the iterations done, so the
\* index of this one, from 1, is i + 1
CM_SsimIter ==
    /\ cm_pc = "ssim_loop"
    /\ i < SsimCount(ref)
    /\ i' = i + 1
    /\ ssim_total' = ssim_total + ComputeSsim(ref[i + 1], x[i + 1])
    /\ ssim_calls' = Append(ssim_calls, [index |-> i + 1, sos_axis |-> 0])
    /\ \E wa, wb \in Scribbles :
         /\ ref' = IF SsimArgsAreCopies \/ ~wa.write THEN ref
                   ELSE [ref EXCEPT ![i + 1] = wa.value]
         /\ x' = IF SsimArgsAreCopies \/ ~wb.write THEN x
                 ELSE [x EXCEPT ![i + 1] = wb.value]
    /\ UNCHANGED <<mainVars, results, cm_pc, cm_in, psnr, nrmse>>

\* lines 28-29: the loop is over; the division raises ZeroDivisionError for
\* a last axis of extent 0, and nothing in compute_metrics or its callers
\* catches it
CM_Divide ==
    /\ cm_pc = "ssim_loop"
    /\ i >= SsimCount(ref)
    /\ IF Len(ref) = 0
       THEN /\ cm_pc' = "ZeroDivisionError"
            /\ pc' = IF pc = "standalone" THEN pc ELSE "aborted"
            /\ results' = results
       ELSE /\ cm_pc' = "ret"
            /\ pc' = pc
            /\ results' = [psnr |-> psnr, nrmse |-> nrmse,
                           ssim |-> Mean(ssim_total, Len(ref))]
    /\ UNCHANGED <<hist, args_sensemap, kspace_truth, mask, kspace_input, sensemap,
                   image_truth, image_input, model_list, idx, model,
                   kspace_output, image_output, writes, steps, jsense_calls,
                   finished, ref, x, cm_in, i, ssim_calls, ssim_total, psnr,
                   nrmse>>

ComputeMetrics == CM_Psnr \/ CM_Nrmse \/ CM_SsimIter \/ CM_Divide

\* ------------------------------------------------------- specifications
Next ==
    \/ LoadTruth \/ MakeMask \/ ApplyMask
    \/ LoadSensemap \/ EstimateSensemap \/ ExpandSensemap
    \/ TruthImage \/ TruthViews
    \/ InputImage \/ InputMetricsCall \/ InputMetricsReturn \/ InputViews
    \/ DelInput
    \/ ListModels \/ LoopHead
    \/ Instantiate \/ InstantiateFails \/ Run \/ RunFails \/ DelModel
    \/ SaveOutput \/ OutputImage \/ OutputMetricsCall \/ OutputMetricsReturn
    \/ OutputViews \/ Finish
    \/ ComputeMetrics

Spec == Init /\ [][Next]_vars

\* compute_metrics(ref, x) called on its own with any two arrays of one shape
InitMetrics ==
    /\ args_sensemap = None
    /\ pc = "standalone"
    /\ mainStart
    /\ results = NoResults
    /\ \E n \in 0..MaxX : ref \in Arrays(n) /\ x \in Arrays(n)
    /\ cm_in = <<ref, x>>
    /\ cm_pc = "psnr"
    /\ i = 0 /\ ssim_calls = <<>> /\ ssim_total = 0 /\ psnr = 0 /\ nrmse = 0

NextMetrics == ComputeMetrics

SpecMetrics == InitMetrics /\ [][NextMetrics]_vars

\* ---------------------------------------------------------- properties
\* number of files written by model k at the path
WritesOf(path, k) ==
    Cardinality({j \in DOMAIN writes :
                    writes[j][1] = path /\ writes[j][2] = k})

LoopWrites == {j \in DOMAIN writes : writes[j][2] >= 1}

StepsOf(name, k) ==
    Cardinality({j \in DOMAIN steps : steps[j] = <<name, k>>})

\* C1: when 'Finished' is logged, every one of the N listed entries was
\* processed, and the loop wrote exactly one kspace_<name>.npy and exactly
\* one <name>_sag.png, <name>_cor.png and <name>_ax.png per entry: 4N files
\* at 4N different paths, N of them arrays
C1_OneOutputSetPerModel ==
    finished =>
        /\ idx = Len(model_list)
        /\ Cardinality(LoopWrites) = 4 * Len(model_list)
        /\ Cardinality({writes[j][1] : j \in LoopWrites}) = 4 * Len(model_list)
        /\ \A k \in DOMAIN model_list :
              /\ WritesOf("out/kspace_" \o model_list[k] \o ".npy", k) = 1
              /\ WritesOf("out/" \o model_list[k] \o "_sag.png", k) = 1
              /\ WritesOf("out/" \o model_list[k] \o "_cor.png", k) = 1
              /\ WritesOf("out/" \o model_list[k] \o "_ax.png", k) = 1
              /\ StepsOf("output_views", k) = 1

C1_Witness == finished /\ Len(model_list) >= 2

\* the contents of kspace_input when it was saved (line 103)
PersistedInput ==
    LET j == CHOOSE c \in DOMAIN writes :
                 writes[c][1] = "out/kspace_input.npy" /\ writes[c][2] = 0
    IN  writes[j][3]

\* C2: every model.run call finds kspace_input with the contents it had when
\* it was saved, whatever earlier runs wrote into their k-space argument
C2_SameInputForEveryModel ==
    /\ \A j \in DOMAIN run_args : run_args[j].kspace = PersistedInput
    /\ pc \in {"instantiate", "run"} => kspace_input = PersistedInput

C2_Witness ==
    /\ Len(run_args) >= 2
    /\ Len(kspace_input) >= 1
    /\ run_args[2].kspace = PersistedInput

\* C3: every model.run call finds the same sensemap as the call before it,
\* whatever earlier runs wrote into their sensemap argument
C3_SameSensemapForEveryModel ==
    \A j \in DOMAIN run_args :
        j >= 2 => run_args[j].sensemap = run_args[j - 1].sensemap

\* C4: once the setup or the run of the k-th model has raised, the script is
\* over: nothing was or is written for the k-th or a later model, no later
\* model is set up, the failed call is not repeated, and 'Finished' is not
\* logged
C4_ModelFailureAborts ==
    \A k \in failed :
        /\ pc = "aborted"
        /\ ~finished
        /\ \A j \in DOMAIN writes : writes[j][2] < k
        /\ \A j \in DOMAIN steps :
              /\ steps[j][2] <= k
              /\ steps[j][2] = k => steps[j][1] \in {"instantiate", "run"}
        /\ StepsOf("instantiate", k) = 1
        /\ StepsOf("run", k) <= 1

C4_Witness ==
    /\ failed = {1}
    /\ Len(model_list) >= 2
    /\ pc = "aborted"

\* C5 as stated: the sensemap every model.run call receives has exactly 5
\* axes
C5_SensemapHasFiveAxes ==
    \A j \in DOMAIN run_args : Len(run_args[j].sensemap.shape) = 5

\* the shape line 117-118 makes of a map of shape sh
ExpectedShape(sh) == IF Len(sh) = 5 THEN sh ELSE <<1>> \o sh

\* C5: a map of shape S with any number of axes but 5 gets one singleton
\* leading axis, shape (1,)+S, and a map with 5 axes is left as it is; so
\* the models receive a 5-axis map exactly when the map loaded or estimated
\* had 4 or 5 axes
C5_OneLeadingAxisUnlessFive ==
    /\ pc \notin {"load_truth", "make_mask", "apply_mask", "sensemap",
                  "expand"} =>
          /\ sensemap.shape = ExpectedShape(sensemap_raw.shape)
          /\ (Len(sensemap.shape) = 5) <=> (Len(sensemap_raw.shape) \in {4, 5})
    /\ \A j \in DOMAIN run_args :
          run_args[j].sensemap.shape = ExpectedShape(sensemap_raw.shape)

C5_Witness ==
    /\ Len(run_args) >= 1
    /\ sensemap_raw.shape = <<2, 2, 2, 2>>
    /\ run_args[1].sensemap.shape = <<1, 2, 2, 2, 2>>

SensemapWrites ==
    {j \in DOMAIN writes : writes[j][1] = "out/sensemap.npy"}

\* C6: sensemap.npy is written if and only if the maps were estimated: with
\* a path in args.sensemap the estimator is never called and sensemap.npy is
\* never written; without one the estimator is called exactly once, on the
\* saved input k-space, and its result is saved before the truth comparison
C6_SensemapSavedIffEstimated ==
    /\ (SensemapWrites # {}) <=> (jsense_calls >= 1)
    /\ args_sensemap = "maps.npy" => jsense_calls = 0 /\ SensemapWrites = {}
    /\ (args_sensemap # "maps.npy"
          /\ pc \notin {"load_truth", "make_mask", "apply_mask", "sensemap"}) =>
            /\ jsense_calls = 1
            /\ Cardinality(SensemapWrites) = 1
            /\ \A j \in SensemapWrites :
                  /\ writes[j][2] = 0
                  /\ writes[j][3] = <<JsenseRun(PersistedInput).data>>
                  /\ \A c \in DOMAIN writes :
                        writes[c][1] \in {"out/truth_sag.png",
                                          "out/truth_cor.png",
                                          "out/truth_ax.png"} => j < c

C6_Witness ==
    /\ pc = "done"
    /\ args_sensemap = None
    /\ jsense_calls = 1
    /\ Len(model_list) >= 1

RECURSIVE SsimSum(_, _)
SsimSum(r, c) ==
    IF r = <<>> THEN 0
    ELSE (3 - 2 * Abs(Head(r) - Head(c)) + Head(r)) + SsimSum(Tail(r), Tail(c))

\* C7: compute_metrics calls compute_ssim once per index of the last axis of
\* ref, in order, with sos_axis 0, and returns as ssim the sum of the n
\* values divided by n; for n = 0 it returns nothing and ends in the
\* ZeroDivisionError
C7_SsimIsMeanOverLastAxis ==
    /\ cm_pc = "ret" =>
          /\ Len(cm_in[1]) >= 1
          /\ Len(ssim_calls) = Len(cm_in[1])
          /\ \A j \in DOMAIN ssim_calls :
                ssim_calls[j] = [index |-> j, sos_axis |-> 0]
          /\ results.ssim = <<SsimSum(cm_in[1], cm_in[2]), Len(cm_in[1])>>
    /\ cm_pc = "ZeroDivisionError" =>
          /\ Len(cm_in[1]) = 0
          /\ ssim_calls = <<>>
          /\ results.ssim[2] = 0
    /\ (cm_pc = "ssim_loop" /\ Len(cm_in[1]) = 0) => i = 0

C7_Witness ==
    /\ cm_pc = "ret"
    /\ Len(cm_in[1]) >= 2
    /\ cm_in[1] # cm_in[2]

\* C8: compute_metrics leaves ref and x as it found them whatever the metric
\* routines write into their arguments, so every comparison has the truth
\* image as it was computed as its reference
C8_ComputeMetricsIsPure ==
    /\ cm_pc # "idle" => ref = cm_in[1] /\ x = cm_in[2]
    /\ (cm_pc # "idle" /\ pc # "standalone") => cm_in[1] = Ifft3c(kspace_truth)
    /\ pc \in {"input_views", "output_views", "loop_head", "done"} =>
          image_truth = Ifft3c(kspace_truth)

C8_Witness ==
    /\ pc = "output_metrics_wait"
    /\ cm_pc = "ret"
    /\ idx >= 2
    /\ ref = Ifft3c(kspace_truth)

ExpectedOrder ==
    <<"instantiate", "run", "del_model", "save_output", "output_image",
      "output_metrics", "output_views">>

\* C9: the steps of the loop are, model after model, instantiate, run,
\* discard, persist, reconstruct, compute metrics, render; no model instance
\* is alive when an output is persisted or the next model is instantiated
C9_StepOrder ==
    /\ \A j \in DOMAIN steps :
          steps[j] = <<ExpectedOrder[((j - 1) % 7) + 1], ((j - 1) \div 7) + 1>>
    /\ max_instances <= 1
    /\ pc \in {"save_output", "instantiate"} => model = None

C9_Witness == pc = "done" /\ Len(steps) >= 14

\* C10: no path is written twice in a run
C10_EveryFileWrittenOnce ==
    \A a, b \in DOMAIN writes : a # b => writes[a][1] # writes[b][1]

====
